---- MODULE Spec2Model ----
\* Model of the content-fetch coordinator (src/src/lib/functions/fetchContent.ts)
\* and of the content store (src/src/lib/contentManagement.ts) of
\* @contentstorage/js, as one state machine over the browser event loop:
\* a call of the public API is one step, the firing of a debounce timer is
\* one step, and the settlement of a network request (with the continuation
\* of the `await` that waits for it) is one step.
EXTENDS Integers, Sequences, FiniteSets, TLC

\* ------------------------------------------------------------------ bounds
MaxCalls == 3            \* fetchContent calls in one behaviour of Spec
MaxTargetCalls == 2      \* fetchContent calls in one behaviour of SpecTarget
MaxBodyCalls == 2        \* fetchContent calls in one behaviour of SpecBody
MaxStoreCalls == 2       \* fetchContent calls in one behaviour of SpecStore
MaxReadCalls == 1        \* fetchContent calls in one behaviour of SpecRead
MaxEffectCalls == 2      \* fetchContent calls in one behaviour of SpecEffects
MaxFrameCalls == 1       \* fetchContent calls in one behaviour of SpecFrame
MaxEditorCalls == 2      \* liveEditorReady calls of the application in SpecEditor
MaxRetries == 2          \* largest `retries` the application passes
MaxTextLen == 6          \* characters of a text in SpecText

\* ------------------------------------------------------- program constants
DEBOUNCE_MS == 200

\* The clock advances by half a debounce delay.
TickMs == DEBOUNCE_MS \div 2

Langs == {"EN", "ET"}            \* two of the LanguageCode tags
ContentKeys == {"k1", "k2"}      \* content keys in use

\* ------------------------------------------------------------ JSON values
\* A JSON value (or undefined) as the code sees it: `t` is the kind.
\* A string is the sequence of its characters.
JUndef == [t |-> "undefined"]
JNull == [t |-> "null"]
JStr(s) == [t |-> "string", s |-> s]
JNum(n) == [t |-> "number", n |-> n]
JArr(items) == [t |-> "array", items |-> items]
JObj(f) == [t |-> "object", f |-> f]

\* typeof v
TypeOf(v) ==
  CASE v.t = "undefined" -> "undefined"
    [] v.t = "null" -> "object"
    [] v.t = "array" -> "object"
    [] v.t = "object" -> "object"
    [] v.t = "string" -> "string"
    [] v.t = "number" -> "number"

\* !!v
Truthy(v) ==
  CASE v.t = "undefined" -> FALSE
    [] v.t = "null" -> FALSE
    [] v.t = "string" -> v.s # <<>>
    [] v.t = "number" -> v.n # 0
    [] OTHER -> TRUE

\* The position in `items` of the array index written `key`, 0 if `key` is
\* not the index of one of the first two elements.
ArrayIndex(key) ==
  CASE key = "0" -> 1
    [] key = "1" -> 2
    [] OTHER -> 0

\* key in v (for a value whose typeof is 'object' and that is not null)
HasKey(v, key) ==
  CASE v.t = "object" -> key \in DOMAIN v.f
    [] v.t = "array" -> ArrayIndex(key) \in 1..Len(v.items)
    [] OTHER -> FALSE

\* v[key], undefined when v has no such key
Get(v, key) ==
  IF ~HasKey(v, key) THEN JUndef
  ELSE IF v.t = "array" THEN v.items[ArrayIndex(key)]
  ELSE v.f[key]

TreeA == JObj("A" :> JStr(<<"v">>))
TreeB == JObj("A" :> JStr(<<"w">>) @@ "B" :> JStr(<<"x">>))
TreeD == JObj("data" :> JStr(<<"d">>) @@ "A" :> JStr(<<"y">>))
Envelope(x) == JObj("data" :> x)

\* What a server may answer.
Bodies ==
  { JUndef, JNull, JStr(<<"s">>), JNum(0), JArr(<<JStr(<<"a">>)>>),
    TreeA, TreeB, TreeD,
    Envelope(TreeA), Envelope(JNull), Envelope(JStr(<<"s">>)),
    Envelope(JArr(<<>>)) }

\* --------------------------------------------------------------- the state
VARIABLES
  activeContent,        \* contentManagement.ts: activeContent (JNull = null)
  currentLanguageCode,  \* window.currentLanguageCode ("" = null)
  appConfig,            \* contentManagement.ts: appConfig
  debounceTimers,       \* request key -> id of the call whose timer is armed, 0 = no entry
  cancelTokenSources,   \* request key -> id of the call whose cancel source is stored, 0 = no entry
  reqs,                 \* the fetchContent calls made so far, in call order
  memoryMap,            \* window.memoryMap: the entries, each with its key
  inIframe,             \* window.parent && window.parent !== window
  last,                 \* the call of getText, getImage or getVariation made
                        \* by the latest step and what it returned, "none"
                        \* after any other step
  liveEditorReadyPromise,  \* global.d.ts 44: "null", or the promise as
                           \* "pending", "true" or "false"
  loader                \* the script-loading sequence of liveEditorReady and
                        \* the calls made so far

vars == <<activeContent, currentLanguageCode, appConfig, debounceTimers,
          cancelTokenSources, reqs, memoryMap, inIframe, last,
          liveEditorReadyPromise, loader>>

\* A step that is not a call of getText, getImage or getVariation.
NoReaderCall ==
  /\ last' = [op |-> "none"]
  /\ UNCHANGED <<memoryMap, inIframe, liveEditorReadyPromise, loader>>

\* No call of liveEditorReady was made yet.
NoLoader ==
  [ moduleCalled |-> FALSE, \* the call of global.d.ts 110-116 was made
    marker |-> FALSE,       \* the URL has contentstorage_live_editor
    isLiveMode |-> FALSE,   \* what isLiveEditorMode() returned
    retries |-> 0,          \* `retries` of the call that made the promise
    phase |-> "none",       \* "none" | "checking" | "loading" | "waiting"
                            \* | "done"
    attempt |-> 0,          \* `attempt` of the latest loadScript
    created |-> 0,          \* promises made by new Promise
    scripts |-> 0,          \* script elements appended
    failed |-> 0,           \* onerror events
    loaded |-> 0,           \* onload events
    calls |-> <<>> ]        \* the calls: their `retries` and the promise
                            \* each returned

NoConfig == [set |-> FALSE, contentKey |-> "", languageCodes |-> <<>>,
             pendingChanges |-> "undefined"]

\* Variant: the key leaves the language out.
RequestKey_ContentKeyOnly(languageToFetch, effectiveContentKey) ==
  <<"EN", effectiveContentKey>>

\* fetchContent.ts 55: `${languageToFetch}:${effectiveContentKey}`
RequestKey(languageToFetch, effectiveContentKey) ==
  <<languageToFetch, effectiveContentKey>>

RequestKeys == Langs \X ContentKeys

Init ==
  /\ activeContent = JNull
  /\ currentLanguageCode = ""
  /\ appConfig = NoConfig
  /\ debounceTimers = [k \in RequestKeys |-> 0]
  /\ cancelTokenSources = [k \in RequestKeys |-> 0]
  /\ reqs = <<>>
  /\ memoryMap = {}
  /\ inIframe = FALSE
  /\ last = [op |-> "none"]
  /\ liveEditorReadyPromise = "null"
  /\ loader = NoLoader

\* The same, the page being loaded in a frame of another page or not.
InitAnywhere ==
  /\ activeContent = JNull
  /\ currentLanguageCode = ""
  /\ appConfig = NoConfig
  /\ debounceTimers = [k \in RequestKeys |-> 0]
  /\ cancelTokenSources = [k \in RequestKeys |-> 0]
  /\ reqs = <<>>
  /\ memoryMap = {}
  /\ inIframe \in BOOLEAN
  /\ last = [op |-> "none"]
  /\ liveEditorReadyPromise = "null"
  /\ loader = NoLoader

\* ------------------------------------------------------------ content store
\* Variant: the test !contentJson is missing (typeof null is 'object').
SetContentLanguageThrows_TypeofOnly(contentJson) ==
  TypeOf(contentJson) # "object"

\* setContentLanguage: the guard that throws
SetContentLanguageThrows(contentJson) ==
  ~Truthy(contentJson) \/ TypeOf(contentJson) # "object"

\* setContentLanguage({languageCode, contentJson}) called by the application
\* Variant: the tree is stored and the language left as it was.
SetContentLanguage_KeepsLanguage(languageCode, contentJson) ==
  /\ IF SetContentLanguageThrows(contentJson)
       THEN UNCHANGED activeContent
       ELSE activeContent' = contentJson
  /\ UNCHANGED <<currentLanguageCode, appConfig, debounceTimers,
                 cancelTokenSources, reqs>>
  /\ NoReaderCall

SetContentLanguage(languageCode, contentJson) ==
  /\ IF SetContentLanguageThrows(contentJson)
       THEN UNCHANGED <<activeContent, currentLanguageCode>>
       ELSE /\ activeContent' = contentJson
            /\ currentLanguageCode' = languageCode
  /\ UNCHANGED <<appConfig, debounceTimers, cancelTokenSources, reqs>>
  /\ NoReaderCall

\* initContentStorage: what it throws, "none" if it accepts the config.
\* On a null config the test !config.contentKey itself throws a TypeError.
InitContentStorageError(config) ==
  IF config.isNull THEN "TypeError"
  ELSE IF config.contentKey = "" THEN "No contentKey provided"
  ELSE IF ~config.isArray THEN "No languageCodes provided"
  ELSE "none"

\* initContentStorage: the condition under which it throws
InitContentStorageThrows(config) ==
  InitContentStorageError(config) # "none"

\* initContentStorage(config)
InitContentStorage(config) ==
  /\ IF InitContentStorageThrows(config)
       THEN UNCHANGED appConfig
       ELSE appConfig' = [set |-> TRUE, contentKey |-> config.contentKey,
                          languageCodes |-> config.languageCodes,
                          pendingChanges |-> config.pendingChanges]
  /\ UNCHANGED <<activeContent, currentLanguageCode, debounceTimers,
                 cancelTokenSources, reqs>>
  /\ NoReaderCall

\* Configurations an application may pass to initContentStorage.
ConfigInputs ==
  [contentKey : {"", "k1"},
   languageCodes : {<<>>, <<"ET", "EN">>},
   isArray : {TRUE},
   isNull : {FALSE},
   pendingChanges : {"undefined", "true"}]
  \cup
  {[contentKey |-> "k1", languageCodes |-> <<>>, isArray |-> FALSE,
    isNull |-> FALSE, pendingChanges |-> "undefined"]}

\* Values an application may pass to setContentLanguage.
ContentInputs == {JNull, JStr(<<"s">>), TreeA, TreeB}

\* -------------------------------------------------------- target resolution
\* language || appConfig?.languageCodes?.[0]     ("" stands for no language)
LanguageToFetch(language, cfg) ==
  IF language # "" THEN language
  ELSE IF cfg.set /\ Len(cfg.languageCodes) > 0 THEN cfg.languageCodes[1]
  ELSE ""

\* withPendingChanges || appConfig?.pendingChanges
UsePendingChangesToFetch(withPendingChanges, cfg) ==
  withPendingChanges = "true" \/ (cfg.set /\ cfg.pendingChanges = "true")

\* contentKey || appConfig.contentKey
EffectiveContentKey(contentKey, cfg) ==
  IF contentKey # "" THEN contentKey ELSE cfg.contentKey

\* Variant: the check of appConfig is missing.
ConfigurationError_NoCheck(language, withPendingChanges, contentKey, cfg) ==
  IF LanguageToFetch(language, cfg) = "" THEN "No language found"
  ELSE IF UsePendingChangesToFetch(withPendingChanges, cfg)
          /\ EffectiveContentKey(contentKey, cfg) = ""
    THEN "No contentKey found"
  ELSE "none"

\* The error fetchContent throws before it does anything, "none" if it goes on.
ConfigurationError(language, withPendingChanges, contentKey, cfg) ==
  IF LanguageToFetch(language, cfg) = "" THEN "No language found"
  ELSE IF ~cfg.set THEN "No app config found"
  ELSE IF UsePendingChangesToFetch(withPendingChanges, cfg)
          /\ EffectiveContentKey(contentKey, cfg) = ""
    THEN "No contentKey found"
  ELSE "none"

\* --------------------------------------------------------- response bodies
\* fetchContent.ts 84-89: the envelope of the pending-changes API
DraftJsonData(data) ==
  IF Truthy(data) /\ TypeOf(data) = "object" /\ HasKey(data, "data")
    THEN data.f["data"] ELSE data

\* Variant: the envelope is unwrapped whatever the mode.
CdnJsonData_AlwaysUnwraps(usePendingChangesToFetch, data) ==
  DraftJsonData(data)

\* fetchContent.ts 151-156: the same, under usePendingChangesToFetch
CdnJsonData(usePendingChangesToFetch, data) ==
  IF usePendingChangesToFetch /\ Truthy(data) /\ TypeOf(data) = "object"
     /\ HasKey(data, "data")
    THEN data.f["data"] ELSE data

\* The error the checks on jsonData throw, "none" if they pass.
JsonDataError(jsonData) ==
  IF jsonData.t = "undefined" \/ jsonData.t = "null" THEN "empty"
  ELSE IF TypeOf(jsonData) # "object" THEN "shape"
  ELSE IF SetContentLanguageThrows(jsonData) THEN "setter"
  ELSE "none"

\* ------------------------------------------------- variable interpolator
\* The characters \w matches, among those the texts are made of.
WordChars == {"a", "n", "_", "1"}

\* String(value)
StringOf(value) ==
  CASE value.t = "string" -> value.s
    [] value.t = "number" -> <<CASE value.n = 0 -> "0" [] value.n = 1 -> "1"
                                [] OTHER -> "7">>
    [] value.t = "null" -> <<"n", "u", "l", "l">>
    [] OTHER -> <<"?">>

\* The length of the longest run of word characters of text from position i.
RECURSIVE WordRun(_, _)
WordRun(text, i) ==
  IF i <= Len(text) /\ text[i] \in WordChars
    THEN 1 + WordRun(text, i + 1) ELSE 0

\* The length of the match of /\{(\w+)}/ at position i of text, 0 if none.
MatchLen(text, i) ==
  IF text[i] # "{" THEN 0
  ELSE LET n == WordRun(text, i + 1)
       IN IF n >= 1 /\ i + n + 1 <= Len(text) /\ text[i + n + 1] = "}"
            THEN n + 2 ELSE 0

\* text.replace(/\{(\w+)}/g, replacer), from position i on
RECURSIVE ReplaceFrom(_, _, _)
ReplaceFrom(text, variables, i) ==
  IF i > Len(text) THEN <<>>
  ELSE LET m == MatchLen(text, i)
           variableName == SubSeq(text, i + 1, i + m - 2)
           placeholder == SubSeq(text, i, i + m - 1)
       IN IF m = 0
            THEN <<text[i]>> \o ReplaceFrom(text, variables, i + 1)
          ELSE IF variableName \in DOMAIN variables
            THEN StringOf(variables[variableName])
                 \o ReplaceFrom(text, variables, i + m)
          ELSE placeholder \o ReplaceFrom(text, variables, i + m)

\* Variant: the result is searched for placeholders again.
PopulateTextWithVariables_Reexpands(text, variables) ==
  ReplaceFrom(ReplaceFrom(text, variables, 1), variables, 1)

\* populateTextWithVariables(text, variables, textKey)
PopulateTextWithVariables(text, variables) ==
  ReplaceFrom(text, variables, 1)

\* No variables given, or an empty mapping.
NoVariables == <<>>

\* !variables || Object.keys(variables).length === 0
VariablesEmpty(variables) == DOMAIN variables = {}

\* A call of populateTextWithVariables on the arguments `last` holds.
Populate ==
  /\ last.op = "arguments"
  /\ last' = [op |-> "populateTextWithVariables", text |-> last.text,
              variables |-> last.variables,
              result |-> PopulateTextWithVariables(last.text,
                                                   last.variables)]
  /\ UNCHANGED <<activeContent, currentLanguageCode, appConfig,
                 debounceTimers, cancelTokenSources, reqs, memoryMap,
                 inIframe, liveEditorReadyPromise, loader>>

\* ------------------------------------------------------------- path resolver
\* A content id is a sequence of symbols: "." and whole key names.
\* Variant: the content id is taken as one key.
Split_NoSplit(contentId) == <<contentId>>

\* contentId.split('.')
RECURSIVE Split(_)
Split(contentId) ==
  IF \A i \in DOMAIN contentId : contentId[i] # "." THEN <<contentId>>
  ELSE LET dot == CHOOSE i \in DOMAIN contentId :
                    /\ contentId[i] = "."
                    /\ \A j \in 1..(i - 1) : contentId[j] # "."
       IN <<SubSeq(contentId, 1, dot - 1)>>
          \o Split(SubSeq(contentId, dot + 1, Len(contentId)))

\* The string a sequence of symbols spells: the empty string, a key name, or
\* a concatenation of names (which none of the trees has as a key).
KeyOf(symbols) ==
  IF symbols = <<>> THEN ""
  ELSE IF Len(symbols) = 1 THEN symbols[1]
  ELSE "<concatenation>"

\* The loop over the keys, shared by the three readers.
RECURSIVE Walk(_, _)
Walk(current, keys) ==
  IF keys = <<>> THEN [found |-> TRUE, value |-> current]
  ELSE IF Truthy(current) /\ TypeOf(current) = "object"
          /\ HasKey(current, KeyOf(Head(keys)))
    THEN Walk(Get(current, KeyOf(Head(keys))), Tail(keys))
  ELSE [found |-> FALSE, value |-> JUndef]

\* The node a content id leads to in the active content.
Resolve(contentId) ==
  IF ~Truthy(activeContent) THEN [found |-> FALSE, value |-> JUndef]
  ELSE Walk(activeContent, Split(contentId))

\* Variant: the entry is made with a new set of ids.
MemoryRecord_FreshIds(key, contentId, type, variation) ==
  {e \in memoryMap : e.key # key}
  \cup {[key |-> key, ids |-> {contentId}, type |-> type,
         variation |-> variation]}

\* window.memoryMap.set(key, {ids, type, variation}) with the ids of the
\* existing entry for the key and contentId.
MemoryRecord(key, contentId, type, variation) ==
  LET existing == {e \in memoryMap : e.key = key}
      idSet == UNION {e.ids : e \in existing} \cup {contentId}
  IN (memoryMap \ existing)
     \cup {[key |-> key, ids |-> idSet, type |-> type,
            variation |-> variation]}

\* The record, made only inside a frame of another page.
Observe(key, contentId, type, variation) ==
  memoryMap' = IF inIframe THEN MemoryRecord(key, contentId, type, variation)
               ELSE memoryMap

ReaderFrame ==
  UNCHANGED <<activeContent, currentLanguageCode, appConfig, debounceTimers,
              cancelTokenSources, reqs, inIframe, liveEditorReadyPromise,
              loader>>

\* getText(contentId, variables)
GetText(contentId, variables) ==
  LET r == Resolve(contentId)
      defaultVal == [contentId |-> contentId, text |-> <<>>]
  IN /\ IF r.found /\ TypeOf(r.value) = "string"
          THEN /\ Observe(r.value, contentId, "text", "none")
               /\ last' = [op |-> "getText", contentId |-> contentId,
                           variables |-> variables,
                           result |->
                             [contentId |-> contentId,
                              text |-> IF VariablesEmpty(variables)
                                         THEN r.value.s
                                         ELSE PopulateTextWithVariables(
                                                r.value.s, variables)]]
          ELSE /\ UNCHANGED memoryMap
               /\ last' = [op |-> "getText", contentId |-> contentId,
                           variables |-> variables,
                           result |-> defaultVal]
     /\ ReaderFrame

\* The prefix getImage puts before the stored url.
CdnBase == <<"https://cdn.contentstorage.app/">>

IsImage(current) ==
  /\ Truthy(current) /\ TypeOf(current) = "object"
  /\ Get(current, "contentstorage_type") = JStr(<<"image">>)
  /\ TypeOf(Get(current, "url")) = "string"

\* Variant: the node is returned as stored.
WithUrl_Keeps(currentData, key) == currentData

\* {...currentData, url: key}
WithUrl(currentData, key) ==
  JObj([k \in DOMAIN currentData.f |->
          IF k = "url" THEN JStr(key) ELSE currentData.f[k]])

EmptyImage ==
  JObj("url" :> JStr(<<>>) @@ "altText" :> JStr(<<>>)
       @@ "contentstorage_type" :> JStr(<<"image">>))

\* getImage(contentId)
GetImage(contentId) ==
  LET r == Resolve(contentId)
      key == CdnBase \o Get(r.value, "url").s
  IN /\ IF r.found /\ IsImage(r.value)
          THEN /\ Observe(JStr(key), contentId, "image", "none")
               /\ last' = [op |-> "getImage", contentId |-> contentId,
                           result |-> [contentId |-> contentId,
                                       data |-> WithUrl(r.value, key)]]
          ELSE /\ UNCHANGED memoryMap
               /\ last' = [op |-> "getImage", contentId |-> contentId,
                           result |-> [contentId |-> contentId,
                                       data |-> EmptyImage]]
     /\ ReaderFrame

\* Variant: any node with a data mapping counts as a variation.
IsVariation_AnyData(current) ==
  /\ Truthy(current) /\ TypeOf(current) = "object"
  /\ TypeOf(Get(current, "data")) = "object"
  /\ Get(current, "data") # JNull

\* contentManagement.ts 258-264
IsVariation(current) ==
  /\ Truthy(current) /\ TypeOf(current) = "object"
  /\ Get(current, "contentstorage_type") = JStr(<<"variation">>)
  /\ TypeOf(Get(current, "data")) = "object"
  /\ Get(current, "data") # JNull

\* contentManagement.ts 267-272: the requested variation is there, a string
UsesRequested(data, variationKey) ==
  /\ Truthy(variationKey) /\ TypeOf(variationKey) = "string"
  /\ HasKey(data, KeyOf(variationKey.s))
  /\ TypeOf(Get(data, KeyOf(variationKey.s))) = "string"

\* contentManagement.ts 308-309: the default variation is used
UsesDefault(data, variationKey) ==
  /\ HasKey(data, "default") /\ TypeOf(variationKey) = "string"
  /\ TypeOf(Get(data, "default")) = "string"

\* getVariation(contentId, variationKey, variables)
GetVariation(contentId, variationKey, variables) ==
  LET r == Resolve(contentId)
      data == Get(r.value, "data")
      call == [op |-> "getVariation", contentId |-> contentId,
               variationKey |-> variationKey, variables |-> variables]
      defaultVal == [contentId |-> contentId, text |-> <<>>]
  IN /\ IF r.found /\ IsVariation(r.value)
             /\ UsesRequested(data, variationKey)
          THEN LET current == Get(data, KeyOf(variationKey.s))
               IN /\ Observe(current, contentId, "variation",
                             KeyOf(variationKey.s))
                  /\ last' =
                       call @@
                       [result |->
                          [contentId |-> contentId,
                           text |-> IF VariablesEmpty(variables)
                                      THEN current.s
                                      ELSE PopulateTextWithVariables(
                                             current.s, variables)]]
        ELSE IF r.found /\ IsVariation(r.value)
                /\ UsesDefault(data, variationKey)
          THEN \* line 317: `current` is the variation node here
               /\ Observe(r.value, contentId, "variation", "default")
               /\ last' = call @@
                          [result |-> [contentId |-> contentId,
                                       text |-> Get(data, "default").s]]
        ELSE /\ UNCHANGED memoryMap
             /\ last' = call @@ [result |-> defaultVal]
     /\ ReaderFrame

\* ------------------------------------------------------ fetch coordinator
\* One fetchContent call: its arguments, what it resolved them to, where it
\* stands and how its promise settled.
NewRequest(language, withPendingChanges, contentKey) ==
  [ language |-> language,
    withPendingChanges |-> withPendingChanges,
    contentKey |-> contentKey,
    usePendingChangesToFetch |->
      UsePendingChangesToFetch(withPendingChanges, appConfig),
    languageToFetch |-> LanguageToFetch(language, appConfig),
    effectiveContentKey |-> EffectiveContentKey(contentKey, appConfig),
    path |-> "none",          \* "draft" | "cdn" | "none" (threw before choosing)
    status |-> "done",        \* "scheduled" | "cleared" | "inflight" | "done"
    cancelled |-> FALSE,      \* cancel() was called on its cancel source
    issued |-> FALSE,         \* axios.get was called
    stored |-> FALSE,         \* its setContentLanguage replaced the content
    promise |-> "pending",    \* "pending" | "resolved" | "rejected"
    error |-> "none",         \* what was thrown or caught
    body |-> JUndef,          \* response.data
    elapsed |-> 0,            \* ms since the call, up to DEBOUNCE_MS
    window |-> {} ]           \* the earlier draft calls for the same key
                              \* made less than DEBOUNCE_MS before this one

\* Variant: the in-flight request is forgotten without being cancelled.
CancelExisting_NoCancel(rs, existingCancelSource) == rs

\* existingCancelSource.cancel(...)
CancelExisting(rs, existingCancelSource) ==
  [i \in DOMAIN rs |->
     IF i = existingCancelSource THEN [rs[i] EXCEPT !.cancelled = TRUE]
     ELSE rs[i]]

\* Variant: the entry is replaced but the old timer keeps running.
ClearExisting_NoClear(rs, existingTimer) == rs

\* clearTimeout(existingTimer): the callback of that call never runs
ClearExisting(rs, existingTimer) ==
  [i \in DOMAIN rs |->
     IF i = existingTimer /\ rs[i].status = "scheduled"
       THEN [rs[i] EXCEPT !.status = "cleared"]
     ELSE rs[i]]

\* The draft calls for the key of `new` made less than DEBOUNCE_MS ago.
InWindow(new) ==
  {i \in DOMAIN reqs :
     /\ reqs[i].path = "draft"
     /\ reqs[i].languageToFetch = new.languageToFetch
     /\ reqs[i].effectiveContentKey = new.effectiveContentKey
     /\ reqs[i].elapsed < DEBOUNCE_MS}

\* Variant: lines 57-62 are missing, a request in flight is left alone.
FetchDraft_NoCancel(new) ==
  LET requestKey == RequestKey(new.languageToFetch, new.effectiveContentKey)
      id == Len(reqs) + 1
  IN /\ cancelTokenSources' = cancelTokenSources
     /\ debounceTimers' = [debounceTimers EXCEPT ![requestKey] = id]
     /\ reqs' = Append(ClearExisting(reqs, debounceTimers[requestKey]),
                       [new EXCEPT !.path = "draft", !.status = "scheduled",
                                   !.window = InWindow(new)])

\* fetchContent.ts 55-143, up to the return of the promise
FetchDraft(new) ==
  LET requestKey == RequestKey(new.languageToFetch, new.effectiveContentKey)
      id == Len(reqs) + 1
  IN /\ cancelTokenSources' = [cancelTokenSources EXCEPT ![requestKey] = 0]
     /\ debounceTimers' = [debounceTimers EXCEPT ![requestKey] = id]
     /\ reqs' = Append(ClearExisting(CancelExisting(reqs,
                                        cancelTokenSources[requestKey]),
                                     debounceTimers[requestKey]),
                       [new EXCEPT !.path = "draft", !.status = "scheduled",
                                   !.window = InWindow(new)])

\* fetchContent.ts 145-150, up to the await of axios.get
FetchCdn(new) ==
  /\ reqs' = Append(reqs, [new EXCEPT !.path = "cdn", !.status = "inflight",
                                      !.issued = TRUE])
  /\ UNCHANGED <<debounceTimers, cancelTokenSources>>

\* fetchContent.ts 31-47: the call throws (its async promise rejects)
FetchThrows(new, message) ==
  /\ reqs' = Append(reqs, [new EXCEPT !.promise = "rejected",
                                      !.error = message])
  /\ UNCHANGED <<debounceTimers, cancelTokenSources>>

\* fetchContent(language, {withPendingChanges, contentKey})
FetchContent(language, withPendingChanges, contentKey) ==
  /\ LET new == NewRequest(language, withPendingChanges, contentKey)
         message == ConfigurationError(language, withPendingChanges,
                                       contentKey, appConfig)
     IN IF message # "none" THEN FetchThrows(new, message)
        ELSE IF UsePendingChangesToFetch(withPendingChanges, appConfig)
          THEN FetchDraft(new)
        ELSE FetchCdn(new)
  /\ UNCHANGED <<activeContent, currentLanguageCode, appConfig>>
  /\ NoReaderCall

\* The continuation of a cancelled request is a microtask queued by cancel():
\* it runs before any timer callback and before any other network event.
MicrotaskPending ==
  \E i \in DOMAIN reqs : reqs[i].status = "inflight" /\ reqs[i].cancelled

\* fetchContent.ts 73-83: the debounce timer of call r fires
TimerFires(r) ==
  /\ r \in DOMAIN reqs
  /\ reqs[r].status = "scheduled"
  /\ reqs[r].elapsed >= DEBOUNCE_MS
  /\ ~MicrotaskPending
  /\ LET requestKey == RequestKey(reqs[r].languageToFetch,
                                  reqs[r].effectiveContentKey)
     IN /\ debounceTimers' = [debounceTimers EXCEPT ![requestKey] = 0]
        /\ cancelTokenSources' = [cancelTokenSources EXCEPT ![requestKey] = r]
  /\ reqs' = [reqs EXCEPT ![r].status = "inflight", ![r].issued = TRUE]
  /\ UNCHANGED <<activeContent, currentLanguageCode, appConfig>>
  /\ NoReaderCall

\* Variant: a cancellation is reported like any other error.
DraftPromiseOnError_RejectsAll(error) == "rejected"

\* What the promise of a draft call does with a caught error.
DraftPromiseOnError(error) ==
  IF error = "cancel" THEN "resolved" ELSE "rejected"

\* Variant: the CDN path rethrows like the draft path.
CdnPromiseOnError_Rethrows(error) == "rejected"

\* What the promise of a CDN call does with a caught error.
CdnPromiseOnError(error) == "resolved"

\* Variant: the catch leaves the cancel source in the map.
DraftCatch_KeepsHandle(r, error, body) ==
  /\ cancelTokenSources' = cancelTokenSources
  /\ reqs' = [reqs EXCEPT ![r].status = "done", ![r].error = error,
                          ![r].body = body,
                          ![r].promise = DraftPromiseOnError(error)]
  /\ UNCHANGED <<activeContent, currentLanguageCode>>

\* fetchContent.ts 114-139: the catch of the draft path
DraftCatch(r, error, body) ==
  LET requestKey == RequestKey(reqs[r].languageToFetch,
                               reqs[r].effectiveContentKey)
  IN /\ cancelTokenSources' = [cancelTokenSources EXCEPT ![requestKey] = 0]
     /\ reqs' = [reqs EXCEPT ![r].status = "done", ![r].error = error,
                             ![r].body = body,
                             ![r].promise = DraftPromiseOnError(error)]
     /\ UNCHANGED <<activeContent, currentLanguageCode>>

\* fetchContent.ts 84-113: the response of draft call r arrives
DraftResponse(r, body) ==
  /\ r \in DOMAIN reqs
  /\ reqs[r].path = "draft" /\ reqs[r].status = "inflight"
  /\ ~reqs[r].cancelled
  /\ ~MicrotaskPending
  /\ LET jsonData == DraftJsonData(body)
         requestKey == RequestKey(reqs[r].languageToFetch,
                                  reqs[r].effectiveContentKey)
     IN IF JsonDataError(jsonData) # "none"
          THEN DraftCatch(r, JsonDataError(jsonData), body)
          ELSE /\ activeContent' = jsonData
               /\ currentLanguageCode' = reqs[r].languageToFetch
               /\ cancelTokenSources' =
                    [cancelTokenSources EXCEPT ![requestKey] = 0]
               /\ reqs' = [reqs EXCEPT ![r].status = "done",
                                       ![r].stored = TRUE,
                                       ![r].body = body,
                                       ![r].promise = "resolved"]
  /\ UNCHANGED <<appConfig, debounceTimers>>
  /\ NoReaderCall

\* axios.get of draft call r rejects with a network error
DraftNetworkError(r) ==
  /\ r \in DOMAIN reqs
  /\ reqs[r].path = "draft" /\ reqs[r].status = "inflight"
  /\ ~reqs[r].cancelled
  /\ ~MicrotaskPending
  /\ DraftCatch(r, "network", JUndef)
  /\ UNCHANGED <<appConfig, debounceTimers>>
  /\ NoReaderCall

\* axios.get of draft call r rejects because its cancel source was cancelled
DraftCancelled(r) ==
  /\ r \in DOMAIN reqs
  /\ reqs[r].path = "draft" /\ reqs[r].status = "inflight"
  /\ reqs[r].cancelled
  /\ DraftCatch(r, "cancel", JUndef)
  /\ UNCHANGED <<appConfig, debounceTimers>>
  /\ NoReaderCall

\* Variant: the catch resets the store, as the catch of setContentLanguage
\* would.
CdnCatch_Resets(r, error, body) ==
  /\ reqs' = [reqs EXCEPT ![r].status = "done", ![r].error = error,
                          ![r].body = body,
                          ![r].promise = CdnPromiseOnError(error)]
  /\ activeContent' = JNull
  /\ currentLanguageCode' = ""

\* fetchContent.ts 178-193: the catch of the CDN path
CdnCatch(r, error, body) ==
  /\ reqs' = [reqs EXCEPT ![r].status = "done", ![r].error = error,
                          ![r].body = body,
                          ![r].promise = CdnPromiseOnError(error)]
  /\ UNCHANGED <<activeContent, currentLanguageCode>>

\* fetchContent.ts 150-177: the response of CDN call r arrives
CdnResponse(r, body) ==
  /\ r \in DOMAIN reqs
  /\ reqs[r].path = "cdn" /\ reqs[r].status = "inflight"
  /\ ~MicrotaskPending
  /\ LET jsonData ==
           CdnJsonData(reqs[r].usePendingChangesToFetch, body)
     IN IF JsonDataError(jsonData) # "none"
          THEN CdnCatch(r, JsonDataError(jsonData), body)
          ELSE /\ activeContent' = jsonData
               /\ currentLanguageCode' = reqs[r].languageToFetch
               /\ reqs' = [reqs EXCEPT ![r].status = "done",
                                       ![r].stored = TRUE,
                                       ![r].body = body,
                                       ![r].promise = "resolved"]
  /\ UNCHANGED <<appConfig, debounceTimers, cancelTokenSources>>
  /\ NoReaderCall

\* axios.get of CDN call r rejects with a network error
CdnNetworkError(r) ==
  /\ r \in DOMAIN reqs
  /\ reqs[r].path = "cdn" /\ reqs[r].status = "inflight"
  /\ ~MicrotaskPending
  /\ CdnCatch(r, "network", JUndef)
  /\ UNCHANGED <<appConfig, debounceTimers, cancelTokenSources>>
  /\ NoReaderCall

\* TickMs of time pass: timers get closer to firing.
Tick ==
  /\ \E i \in DOMAIN reqs :
       reqs[i].path = "draft" /\ reqs[i].elapsed < DEBOUNCE_MS
  /\ reqs' = [i \in DOMAIN reqs |->
               IF reqs[i].path = "draft" /\ reqs[i].elapsed < DEBOUNCE_MS
                 THEN [reqs[i] EXCEPT !.elapsed = @ + TickMs]
                 ELSE reqs[i]]
  /\ UNCHANGED <<activeContent, currentLanguageCode, appConfig,
                 debounceTimers, cancelTokenSources>>
  /\ NoReaderCall

\* One step of the program, the inputs of the application and the answers
\* of the servers drawn from the given sets, at most maxCalls fetchContent calls.
Step(configs, contents, languages, pendings, contentKeys, bodies, maxCalls) ==
  \/ \E config \in configs : InitContentStorage(config)
  \/ \E languageCode \in Langs, contentJson \in contents :
       SetContentLanguage(languageCode, contentJson)
  \/ \E language \in languages, withPendingChanges \in pendings,
        contentKey \in contentKeys :
       /\ Len(reqs) < maxCalls
       /\ FetchContent(language, withPendingChanges, contentKey)
  \/ \E r \in 1..maxCalls : TimerFires(r)
  \/ \E r \in 1..maxCalls, body \in bodies : DraftResponse(r, body)
  \/ \E r \in 1..maxCalls : DraftNetworkError(r)
  \/ \E r \in 1..maxCalls : DraftCancelled(r)
  \/ \E r \in 1..maxCalls, body \in bodies : CdnResponse(r, body)
  \/ \E r \in 1..maxCalls : CdnNetworkError(r)
  \/ Tick

\* Arguments an application may pass to fetchContent.
LanguageArgs == {"", "EN"}
WithPendingChangesArgs == {"undefined", "true", "false"}
ContentKeyArgs == {"", "k2"}

\* Spec: the fetch coordinator under every interleaving of calls, timers and
\* network events, for an application that configures the CDN as the default
\* and asks for drafts per call, in two languages.
CoordConfigs ==
  {[contentKey |-> "k1", languageCodes |-> <<"EN">>, isArray |-> TRUE,
    isNull |-> FALSE, pendingChanges |-> "undefined"],
   [contentKey |-> "", languageCodes |-> <<"EN">>, isArray |-> TRUE,
    isNull |-> FALSE, pendingChanges |-> "undefined"]}
CoordBodies == {TreeA, JNull}

Next ==
  Step(CoordConfigs, {TreeB, JNull}, {"", "ET"}, {"undefined", "true"}, {""},
       CoordBodies, MaxCalls)

Spec == Init /\ [][Next]_vars

\* SpecTarget: every argument of fetchContent under every configuration.
NextTarget ==
  Step(ConfigInputs, {TreeB}, LanguageArgs, WithPendingChangesArgs,
       ContentKeyArgs, {TreeA}, MaxTargetCalls)

SpecTarget == Init /\ [][NextTarget]_vars

\* SpecStore: every kind of value given to setContentLanguage and every kind
\* of configuration given to initContentStorage, between fetches.
NullConfig ==
  [contentKey |-> "", languageCodes |-> <<>>, isArray |-> FALSE,
   isNull |-> TRUE, pendingChanges |-> "undefined"]
StoreConfigs ==
  ConfigInputs \cup
  {NullConfig,
   [contentKey |-> "", languageCodes |-> <<>>, isArray |-> FALSE,
    isNull |-> FALSE, pendingChanges |-> "undefined"]}
StoreContents ==
  {JUndef, JNull, JStr(<<"s">>), JNum(0), JArr(<<>>), TreeA, TreeB}

NextStore ==
  Step(StoreConfigs, StoreContents, {""}, {"undefined", "true"}, {""},
       {TreeD, JNull}, MaxStoreCalls)

SpecStore == Init /\ [][NextStore]_vars

\* SpecRead: the readers on the content an application or a fetch from the
\* CDN has set, in a page that is not in a frame.
ImageNode(url, altText) ==
  JObj("contentstorage_type" :> JStr(<<"image">>) @@ "url" :> JStr(url)
       @@ "altText" :> JStr(altText))
VariationNode(data) ==
  JObj("contentstorage_type" :> JStr(<<"variation">>) @@ "data" :> JObj(data))

HomeTree ==
  JObj("Home" :> JObj(
    "title" :> JStr(<<"H", "i", " ", "{", "n", "}">>)
    @@ "hero" :> ImageNode(<<"x.png">>, <<"alt">>)
    @@ "cta" :> VariationNode("default" :> JStr(<<"D", "{", "n", "}">>)
                              @@ "variantB" :> JStr(<<"B", "{", "n", "}">>)
                              @@ "num" :> JNum(1))
    @@ "bare" :> VariationNode("variantB" :> JStr(<<"B">>))
    @@ "raw" :> JObj("data" :> JObj("default" :> JStr(<<"R">>)))))
FlatTree == JObj("Home" :> JStr(<<"x">>))

ReadContents == {HomeTree, FlatTree, JNull}
ContentIds ==
  { <<"Home", ".", "title">>, <<"Home", ".", "hero">>, <<"Home", ".", "cta">>,
    <<"Home", ".", "bare">>, <<"Home", ".", "raw">>, <<"Home">>,
    <<"Home", ".", "nope">>, <<"Home", "title">>, <<>>,
    <<"Home", ".", "title", ".", "x">>, <<"Home", ".">>,
    <<"Home", ".", "hero", ".", "altText">> }
VariationKeys ==
  { JUndef, JStr(<<>>), JStr(<<"variantB">>), JStr(<<"missing">>),
    JStr(<<"default">>), JStr(<<"num">>) }
ReadVariables == {NoVariables, <<"n">> :> JStr(<<"J">>)}
ReadConfig ==
  [contentKey |-> "k1", languageCodes |-> <<"EN">>, isArray |-> TRUE,
   isNull |-> FALSE, pendingChanges |-> "undefined"]

NextRead ==
  \/ InitContentStorage(ReadConfig)
  \/ \E contentJson \in ReadContents : SetContentLanguage("EN", contentJson)
  \/ /\ Len(reqs) < MaxReadCalls
     /\ FetchContent("", "undefined", "")
  \/ \E r \in 1..MaxReadCalls, body \in {FlatTree, JNull} :
       CdnResponse(r, body)
  \/ \E r \in 1..MaxReadCalls : CdnNetworkError(r)
  \/ \E contentId \in ContentIds, variables \in ReadVariables :
       GetText(contentId, variables)
  \/ \E contentId \in ContentIds : GetImage(contentId)
  \/ \E contentId \in ContentIds, variationKey \in VariationKeys,
        variables \in ReadVariables :
       GetVariation(contentId, variationKey, variables)

SpecRead == Init /\ [][NextRead]_vars

\* SpecText: populateTextWithVariables on every short text.
TextChars == {"{", "}", "a", "n", "-"}
RECURSIVE TextsOfLength(_)
TextsOfLength(n) ==
  IF n = 0 THEN {<<>>}
  ELSE {Append(text, c) : text \in TextsOfLength(n - 1), c \in TextChars}
Texts == UNION {TextsOfLength(n) : n \in 0..MaxTextLen}
VariableMaps ==
  { NoVariables,
    <<"a">> :> JStr(<<"A">>),
    <<"a">> :> JStr(<<"{", "n", "}">>) @@ <<"n">> :> JNum(1),
    <<"a", "n">> :> JStr(<<>>) @@ <<"n">> :> JNull }

\* The module loaded, and the arguments of one call chosen.
InitText ==
  /\ activeContent = JNull
  /\ currentLanguageCode = ""
  /\ appConfig = NoConfig
  /\ debounceTimers = [k \in RequestKeys |-> 0]
  /\ cancelTokenSources = [k \in RequestKeys |-> 0]
  /\ reqs = <<>>
  /\ memoryMap = {}
  /\ inIframe = FALSE
  /\ last \in [op : {"arguments"}, text : Texts, variables : VariableMaps]
  /\ liveEditorReadyPromise = "null"
  /\ loader = NoLoader

NextText == Populate

SpecText == InitText /\ [][NextText]_vars

\* SpecFrame: the readers in a page that may be in a frame of another page,
\* on trees an application or a fetch from the CDN has set.
FrameTree == JObj("Home" :> JStr(<<"H", "i", " ", "{", "n", "}">>))
FrameContents == {HomeTree, FrameTree}
FrameIds ==
  { <<"Home">>, <<"Home", ".", "title">>, <<"Home", ".", "hero">>,
    <<"Home", ".", "cta">> }
FrameVariationKeys == {JStr(<<"variantB">>), JStr(<<"missing">>)}

NextFrame ==
  \/ InitContentStorage(ReadConfig)
  \/ \E contentJson \in FrameContents : SetContentLanguage("EN", contentJson)
  \/ /\ Len(reqs) < MaxFrameCalls
     /\ FetchContent("", "undefined", "")
  \/ \E r \in 1..MaxFrameCalls : CdnResponse(r, FrameTree)
  \/ \E r \in 1..MaxFrameCalls : CdnNetworkError(r)
  \/ \E contentId \in FrameIds, variables \in ReadVariables :
       GetText(contentId, variables)
  \/ \E contentId \in FrameIds : GetImage(contentId)
  \/ \E contentId \in FrameIds, variationKey \in FrameVariationKeys :
       GetVariation(contentId, variationKey, NoVariables)

SpecFrame == InitAnywhere /\ [][NextFrame]_vars

\* SpecEffects: the readers between the steps of fetches that succeed, fail
\* or are cancelled, on both paths.
EffectConfigs ==
  {[contentKey |-> "k1", languageCodes |-> <<"EN">>, isArray |-> TRUE,
    isNull |-> FALSE, pendingChanges |-> "undefined"]}
EffectBodies == {TreeA, JNull, JStr(<<"s">>), JArr(<<>>)}

NextEffects ==
  \/ Step(EffectConfigs, {TreeB}, {""}, {"undefined", "true"}, {""},
          EffectBodies, MaxEffectCalls)
  \/ GetText(<<"A">>, NoVariables)
  \/ GetImage(<<"A">>)
  \/ GetVariation(<<"A">>, JUndef, NoVariables)

SpecEffects == Init /\ [][NextEffects]_vars

\* ------------------------------------------------------ live editor loader
\* What the loader leaves alone.
LoaderFrame ==
  UNCHANGED <<activeContent, currentLanguageCode, appConfig, debounceTimers,
              cancelTokenSources, reqs, memoryMap, inIframe, last>>

\* liveEditorReady(retries = 2, delay = 3000)
DefaultRetries == 2

\* liveEditorReady(retries, delay) up to its return: the memoized promise,
\* or a new one whose executor runs up to `await isLiveEditorMode()`.
LiveEditorReadyCall(retries, byModule) ==
  IF liveEditorReadyPromise # "null"
    THEN /\ UNCHANGED liveEditorReadyPromise
         /\ loader' = [loader EXCEPT
              !.moduleCalled = @ \/ byModule,
              !.calls = Append(@, [retries |-> retries,
                                   promise |-> loader.created])]
    ELSE /\ liveEditorReadyPromise' = "pending"
         /\ loader' = [loader EXCEPT
              !.moduleCalled = @ \/ byModule,
              !.retries = retries,
              !.phase = "checking",
              !.created = @ + 1,
              !.calls = Append(@, [retries |-> retries,
                                   promise |-> loader.created + 1])]

\* global.d.ts 110-116: the call the module makes when it is loaded
ModuleInit ==
  /\ ~loader.moduleCalled
  /\ LiveEditorReadyCall(DefaultRetries, TRUE)
  /\ LoaderFrame

\* A call by the application, which has the function once the module is
\* loaded.
LiveEditorReady(retries) ==
  /\ loader.moduleCalled
  /\ Len(loader.calls) < MaxEditorCalls + 1
  /\ LiveEditorReadyCall(retries, FALSE)
  /\ LoaderFrame

\* loadScript(attempt) up to document.head.appendChild(scriptElement)
LoadScript(l, attempt) ==
  [l EXCEPT !.phase = "loading", !.attempt = attempt, !.scripts = @ + 1]

\* isLiveEditorMode() has returned: inIframe && marker, or false because
\* window.top could not be read; the executor goes on.
ModeChecked(threw) ==
  /\ loader.phase = "checking"
  /\ LET isLiveMode == ~threw /\ inIframe /\ loader.marker
     IN IF ~isLiveMode
          THEN /\ liveEditorReadyPromise' = "false"
               /\ loader' = [loader EXCEPT !.isLiveMode = FALSE,
                                           !.phase = "done"]
          ELSE /\ UNCHANGED liveEditorReadyPromise
               /\ loader' = LoadScript([loader EXCEPT !.isLiveMode = TRUE], 1)
  /\ LoaderFrame

\* scriptElement.onload
ScriptLoads ==
  /\ loader.phase = "loading"
  /\ liveEditorReadyPromise' = "true"
  /\ loader' = [loader EXCEPT !.phase = "done", !.loaded = @ + 1]
  /\ LoaderFrame

\* Variant: one more attempt is made than `retries` allows.
ScriptFails_OneMore ==
  /\ loader.phase = "loading"
  /\ IF loader.attempt <= loader.retries
       THEN /\ UNCHANGED liveEditorReadyPromise
            /\ loader' = [loader EXCEPT !.phase = "waiting", !.failed = @ + 1]
       ELSE /\ liveEditorReadyPromise' = "false"
            /\ loader' = [loader EXCEPT !.phase = "done", !.failed = @ + 1]
  /\ LoaderFrame

\* scriptElement.onerror
ScriptFails ==
  /\ loader.phase = "loading"
  /\ IF loader.attempt < loader.retries
       THEN /\ UNCHANGED liveEditorReadyPromise
            /\ loader' = [loader EXCEPT !.phase = "waiting", !.failed = @ + 1]
       ELSE /\ liveEditorReadyPromise' = "false"
            /\ loader' = [loader EXCEPT !.phase = "done", !.failed = @ + 1]
  /\ LoaderFrame

\* The timer of `delay` ms set by onerror fires: loadScript(attempt + 1)
RetryTimerFires ==
  /\ loader.phase = "waiting"
  /\ loader' = LoadScript(loader, loader.attempt + 1)
  /\ UNCHANGED liveEditorReadyPromise
  /\ LoaderFrame

\* SpecEditor: the module is loaded in a page that may be in a frame and
\* may carry the marker; the application calls liveEditorReady; scripts
\* load or fail.  A microtask runs, a script element fires one of its two
\* events and a timer fires, each sooner or later.
InitEditor ==
  /\ activeContent = JNull
  /\ currentLanguageCode = ""
  /\ appConfig = NoConfig
  /\ debounceTimers = [k \in RequestKeys |-> 0]
  /\ cancelTokenSources = [k \in RequestKeys |-> 0]
  /\ reqs = <<>>
  /\ memoryMap = {}
  /\ inIframe \in BOOLEAN
  /\ last = [op |-> "none"]
  /\ liveEditorReadyPromise = "null"
  /\ loader \in {[NoLoader EXCEPT !.marker = m] : m \in BOOLEAN}

NextEditor ==
  \/ ModuleInit
  \/ \E retries \in 0..MaxRetries : LiveEditorReady(retries)
  \/ \E threw \in BOOLEAN : ModeChecked(threw)
  \/ ScriptLoads
  \/ ScriptFails
  \/ RetryTimerFires

SpecEditor ==
  /\ InitEditor /\ [][NextEditor]_vars
  /\ WF_vars(ModuleInit)
  /\ WF_vars(\E threw \in BOOLEAN : ModeChecked(threw))
  /\ WF_vars(ScriptLoads \/ ScriptFails)
  /\ WF_vars(RetryTimerFires)

\* SpecBody: every response body on both paths.
NextBody ==
  Step(CoordConfigs, {TreeB}, {""}, {"undefined", "true"}, {""},
       Bodies, MaxBodyCalls)

SpecBody == Init /\ [][NextBody]_vars

\* ================================================================ properties
SameKey(i, j) ==
  /\ reqs[i].languageToFetch = reqs[j].languageToFetch
  /\ reqs[i].effectiveContentKey = reqs[j].effectiveContentKey

DraftCalls == {i \in DOMAIN reqs : reqs[i].path = "draft"}

\* C1: of the draft calls for one (language, contentKey) made within one
\* debounce window, no call but the last ever issues its network request or
\* replaces the active content.
C1_OnlyLastCallInWindowIssues ==
  \A j \in DOMAIN reqs : \A i \in reqs[j].window :
    ~reqs[i].issued /\ ~reqs[i].stored

\* Three calls in one window, and the request of the last one was issued.
C1_Witness ==
  \E j \in DOMAIN reqs :
    Cardinality(reqs[j].window) >= 2 /\ reqs[j].issued

\* Nothing is scheduled and nothing is in flight.
Quiescent ==
  \A i \in DOMAIN reqs : reqs[i].status \notin {"scheduled", "inflight"}

\* C2: every promise of a draft call settles, a superseded call resolving as
\* a cancellation: once no timer is armed and no request is in flight, no
\* draft promise is pending and no superseded call was rejected.
C2_EveryDraftPromiseSettles ==
  Quiescent =>
    \A i \in DraftCalls :
      /\ reqs[i].promise # "pending"
      /\ (reqs[i].status = "cleared" \/ reqs[i].cancelled)
           => reqs[i].promise = "resolved"

\* C3: for each key at most one draft request is in flight and not
\* cancelled, and at most one debounce timer is armed.
C3_OneInFlightOneTimerPerKey ==
  \A i, j \in DraftCalls :
    (i # j /\ SameKey(i, j)) =>
      /\ ~(/\ reqs[i].status = "inflight" /\ ~reqs[i].cancelled
           /\ reqs[j].status = "inflight" /\ ~reqs[j].cancelled)
      /\ ~(reqs[i].status = "scheduled" /\ reqs[j].status = "scheduled")

\* A cancelled request has not settled yet and the timer of its successor
\* is armed, while a third call for the key was cleared before.
C3_Witness ==
  \E i, j, k \in DraftCalls :
    /\ i < j /\ j < k /\ SameKey(i, j) /\ SameKey(j, k)
    /\ reqs[i].status = "inflight" /\ reqs[i].cancelled
    /\ reqs[j].status = "cleared"
    /\ reqs[k].status = "scheduled"

\* C4: a draft call replaces the active content only if it was not cancelled
\* and no later draft call for its key has been made.
C4_LastRequestWins ==
  [][\A i \in DOMAIN reqs :
       (reqs[i].path = "draft" /\ ~reqs[i].stored /\ reqs'[i].stored) =>
         /\ ~reqs[i].cancelled
         /\ ~\E j \in DraftCalls : j > i /\ SameKey(i, j)]_vars

\* A cancelled call has settled and the call that superseded it stored its
\* response.
C4_Witness ==
  \E i, j \in DraftCalls :
    /\ i < j /\ SameKey(i, j)
    /\ reqs[i].error = "cancel" /\ reqs[i].status = "done"
    /\ ~reqs[i].stored
    /\ reqs[j].stored

\* C5: a draft call whose timer fired rejects for a network error, an empty
\* body, a body of the wrong shape and an error of the store setter, and
\* resolves when it was cancelled.
C5_DraftRejectsButForCancel ==
  \A i \in DraftCalls :
    (reqs[i].issued /\ reqs[i].status = "done") =>
      IF reqs[i].cancelled THEN reqs[i].promise = "resolved"
      ELSE /\ (reqs[i].body.t \in {"undefined", "null"})
                => reqs[i].promise = "rejected"
           /\ (reqs[i].body.t \in {"string", "number"})
                => reqs[i].promise = "rejected"
           /\ reqs[i].error \in {"network", "empty", "shape", "setter"}
                => reqs[i].promise = "rejected"
           /\ reqs[i].error # "cancel"

\* One draft call resolved as cancelled, the next rejected for the shape of
\* its body.
C5_Witness ==
  \E i, j \in DraftCalls :
    /\ reqs[i].cancelled /\ reqs[i].status = "done"
    /\ reqs[i].promise = "resolved"
    /\ reqs[j].body = JStr(<<"s">>) /\ reqs[j].promise = "rejected"

\* C6: the promise of a CDN call never rejects and is resolved once the
\* request has settled, whatever the outcome.
C6_CdnNeverRejects ==
  \A i \in DOMAIN reqs :
    reqs[i].path = "cdn" =>
      /\ reqs[i].promise # "rejected"
      /\ reqs[i].status = "done" => reqs[i].promise = "resolved"

\* A CDN call failed on the shape of its body, another on the network, and
\* both resolved.
C6_Witness ==
  \E i, j \in DOMAIN reqs :
    /\ reqs[i].path = "cdn" /\ reqs[i].body = JNum(0)
    /\ reqs[i].promise = "resolved" /\ ~reqs[i].stored
    /\ reqs[j].path = "cdn" /\ reqs[j].error = "network"
    /\ reqs[j].promise = "resolved"

\* The call made by this step, when the step is a fetchContent call.
IsCall == Len(reqs') = Len(reqs) + 1
NewCall == reqs'[Len(reqs')]

\* C7: language = the argument, else the first configured language; content
\* key = the option, else the configured key; mode = the option
\* withPendingChanges whenever it is given (true or false), else the
\* configured default.
C7_ExplicitModeOverrides ==
  [][(IsCall /\ NewCall.path # "none") =>
       /\ NewCall.languageToFetch =
            (IF NewCall.language # "" THEN NewCall.language
             ELSE appConfig.languageCodes[1])
       /\ NewCall.effectiveContentKey =
            (IF NewCall.contentKey # "" THEN NewCall.contentKey
             ELSE appConfig.contentKey)
       /\ (NewCall.path = "draft") =
            (IF NewCall.withPendingChanges # "undefined"
               THEN NewCall.withPendingChanges = "true"
               ELSE appConfig.pendingChanges = "true")]_vars

\* The three cases in which C8 says the call fails.
NoLanguage(new) ==
  new.language = "" /\ (~appConfig.set \/ appConfig.languageCodes = <<>>)
NoAppConfig(new) == ~appConfig.set
NoContentKeyInDraftMode(new) ==
  /\ new.withPendingChanges = "true" \/ appConfig.pendingChanges = "true"
  /\ new.contentKey = "" /\ appConfig.contentKey = ""

\* C8: a call without a language, without an app configuration or, in draft
\* mode, without a content key fails with a configuration error and does
\* nothing else: no request, no timer, no cancellation, the store and the
\* registry as before.
C8_ConfigurationErrorHasNoEffect ==
  [][(IsCall /\ (NoLanguage(NewCall) \/ NoAppConfig(NewCall)
                 \/ NoContentKeyInDraftMode(NewCall))) =>
       /\ NewCall.promise = "rejected"
       /\ NewCall.error \in {"No language found", "No app config found",
                             "No contentKey found"}
       /\ ~NewCall.issued /\ NewCall.status = "done"
       /\ SubSeq(reqs', 1, Len(reqs)) = reqs
       /\ UNCHANGED <<activeContent, currentLanguageCode, appConfig,
                      debounceTimers, cancelTokenSources>>]_vars

\* A call found no language while the timer of an earlier call was armed.
C8_Witness ==
  \E i, j \in DOMAIN reqs :
    /\ i < j
    /\ reqs[i].status = "scheduled"
    /\ debounceTimers[RequestKey(reqs[i].languageToFetch,
                                 reqs[i].effectiveContentKey)] = i
    /\ reqs[j].error = "No language found"

\* The body after the unwrapping the claims speak of.
Unwrapped(r) ==
  IF r.path = "draft" /\ r.body.t = "object" /\ "data" \in DOMAIN r.body.f
    THEN r.body.f["data"] ELSE r.body

\* A response has arrived for call i (no network error, no cancellation).
Answered(i) ==
  /\ reqs[i].issued /\ reqs[i].status = "done"
  /\ reqs[i].error \notin {"network", "cancel"}

\* C9: on both paths a null or undefined body is an empty-response error and
\* a body that is not an object, primitives and arrays included, is an
\* unexpected-shape error; in both cases the store keeps its content.
C9_NonObjectBodyIsRejected ==
  \A i \in DOMAIN reqs :
    Answered(i) =>
      /\ Unwrapped(reqs[i]).t \in {"undefined", "null"}
           => (reqs[i].error = "empty" /\ ~reqs[i].stored)
      /\ Unwrapped(reqs[i]).t \in {"string", "number", "array"}
           => (reqs[i].error = "shape" /\ ~reqs[i].stored)

\* C10: a successful draft response with a `data` field stores the value of
\* that field, one without it is stored as is, and a successful CDN response
\* is stored unchanged, `data` key or not.
C10_EnvelopeOnlyOnDraftPath ==
  [][\A i \in DOMAIN reqs :
       (~reqs[i].stored /\ reqs'[i].stored) =>
         activeContent' = Unwrapped(reqs'[i])]_vars

\* A draft call stored the inside of an envelope and a CDN call then stored
\* the same body whole.
C10_Witness ==
  \E i, j \in DOMAIN reqs :
    /\ reqs[i].path = "draft" /\ reqs[i].stored
    /\ reqs[i].body = Envelope(TreeA)
    /\ reqs[j].path = "cdn" /\ reqs[j].stored
    /\ reqs[j].body = Envelope(TreeA)
    /\ i < j /\ activeContent = Envelope(TreeA)

\* C11: setContentLanguage with a non-null object replaces the active tree
\* and the active language in one step; with null or a value that is not an
\* object it throws and leaves both as they were.
C11_SetContentLanguageAtomic ==
  [][\A languageCode \in Langs, contentJson \in StoreContents :
       SetContentLanguage(languageCode, contentJson) =>
         IF contentJson.t \in {"object", "array"}
           THEN /\ ~SetContentLanguageThrows(contentJson)
                /\ activeContent' = contentJson
                /\ currentLanguageCode' = languageCode
           ELSE /\ SetContentLanguageThrows(contentJson)
                /\ activeContent' = activeContent
                /\ currentLanguageCode' = currentLanguageCode]_vars

\* A tree was set for one language, then another tree for the other
\* language, no fetch having been made.
C11_Witness ==
  /\ reqs = <<>>
  /\ activeContent = TreeB /\ currentLanguageCode = "ET"

\* The configurations C12 calls acceptable.
CompleteConfig(config) ==
  /\ ~config.isNull
  /\ config.contentKey # ""
  /\ config.isArray /\ config.languageCodes # <<>>

\* The field C12 says the error names, contentKey first.
MissingField(config) ==
  IF config.isNull \/ config.contentKey = "" THEN "No contentKey provided"
  ELSE "No languageCodes provided"

\* C12: initContentStorage stores a configuration only if contentKey is a
\* non-empty string and languageCodes a non-empty sequence; otherwise it
\* throws an error naming the missing field, contentKey first, and the stored
\* configuration stays as it was.
C12_InitRejectsIncompleteConfig ==
  [][\A config \in StoreConfigs :
       InitContentStorage(config) =>
         IF CompleteConfig(config)
           THEN /\ InitContentStorageError(config) = "none"
                /\ appConfig'.set
                /\ appConfig'.contentKey = config.contentKey
                /\ appConfig'.languageCodes = config.languageCodes
           ELSE /\ InitContentStorageError(config) = MissingField(config)
                /\ appConfig' = appConfig]_vars

\* What the paths of the trees of SpecRead and SpecFrame lead to, written out by hand: the
\* kind is "text" for a string, "image" and "variation" for the two typed
\* nodes, "other" for any other node.  A path with no entry for a tree is
\* absent from it.
Leaves ==
  { [tree |-> HomeTree, path |-> <<"Home">>, kind |-> "other",
     leaf |-> <<>>],
    [tree |-> HomeTree, path |-> <<"Home", ".", "title">>, kind |-> "text",
     leaf |-> <<"H", "i", " ", "{", "n", "}">>],
    [tree |-> HomeTree, path |-> <<"Home", ".", "hero">>, kind |-> "image",
     leaf |-> <<>>],
    [tree |-> HomeTree, path |-> <<"Home", ".", "hero", ".", "altText">>,
     kind |-> "text", leaf |-> <<"alt">>],
    [tree |-> HomeTree, path |-> <<"Home", ".", "cta">>, kind |-> "variation",
     leaf |-> <<>>],
    [tree |-> HomeTree, path |-> <<"Home", ".", "bare">>,
     kind |-> "variation", leaf |-> <<>>],
    [tree |-> HomeTree, path |-> <<"Home", ".", "raw">>, kind |-> "other",
     leaf |-> <<>>],
    [tree |-> FlatTree, path |-> <<"Home">>, kind |-> "text",
     leaf |-> <<"x">>],
    [tree |-> FrameTree, path |-> <<"Home">>, kind |-> "text",
     leaf |-> <<"H", "i", " ", "{", "n", "}">>] }

\* The latest step called the reader op, which found the tree as it is now.
Called(op) == last.op = op

\* C13: getText on a path that leads to a string leaf of the active tree,
\* called with no variables or with an empty mapping, returns that string
\* as text and the path as contentId.
C13_GetTextReturnsLeaf ==
  \A e \in Leaves :
    ( /\ Called("getText") /\ VariablesEmpty(last.variables)
      /\ e.kind = "text"
      /\ activeContent = e.tree /\ last.contentId = e.path )
    => last.result = [contentId |-> e.path, text |-> e.leaf]

\* The title two levels down was read without variables.
C13_Witness ==
  /\ Called("getText") /\ last.variables = NoVariables
  /\ activeContent = HomeTree
  /\ last.contentId = <<"Home", ".", "title">>
  /\ last.result.text = <<"H", "i", " ", "{", "n", "}">>

\* The kind of node each reader accepts.
KindRead(op) ==
  CASE op = "getText" -> "text"
    [] op = "getImage" -> "image"
    [] op = "getVariation" -> "variation"

\* The empty result of each reader for a path.
EmptyResult(op, contentId) ==
  IF op = "getImage"
    THEN [contentId |-> contentId,
          data |-> JObj("url" :> JStr(<<>>) @@ "altText" :> JStr(<<>>)
                        @@ "contentstorage_type" :> JStr(<<"image">>))]
    ELSE [contentId |-> contentId, text |-> <<>>]

VariationData ==
  <<"Home", ".", "cta">> :>
     ("default" :> JStr(<<"D", "{", "n", "}">>)
      @@ "variantB" :> JStr(<<"B", "{", "n", "}">>) @@ "num" :> JNum(1))
  @@ <<"Home", ".", "bare">> :> ("variantB" :> JStr(<<"B">>))

\* The value C15 says getVariation chooses: that of the requested key if the
\* key is given and its value is a string, else that of `default` if it is
\* a string, else none.
ChosenVariation(data, variationKey) ==
  IF /\ variationKey.t = "string"
     /\ KeyOf(variationKey.s) \in DOMAIN data
     /\ data[KeyOf(variationKey.s)].t = "string"
    THEN [some |-> TRUE, text |-> data[KeyOf(variationKey.s)].s]
  ELSE IF "default" \in DOMAIN data /\ data["default"].t = "string"
    THEN [some |-> TRUE, text |-> data["default"].s]
  ELSE [some |-> FALSE, text |-> <<>>]

\* getVariation was called on one of the variation nodes of HomeTree.
CalledOnVariation ==
  /\ Called("getVariation") /\ activeContent = HomeTree
  /\ last.contentId \in DOMAIN VariationData

\* C15: getVariation on a variation node returns the value of the requested
\* key if it is given, present and a string; otherwise, also when no key is
\* given, the value of `default` if it is a string; otherwise the empty
\* text.  (Stated for calls without variables.)
C15_VariationResolutionOrder ==
  (CalledOnVariation /\ VariablesEmpty(last.variables))
  => last.result =
       [contentId |-> last.contentId,
        text |-> ChosenVariation(VariationData[last.contentId],
                                 last.variationKey).text]

\* C16: when getVariation produces a value, through the requested key or
\* through `default`, and variables are given, the text returned is that
\* value with the variables filled in.
C16_VariationInterpolated ==
  LET chosen == ChosenVariation(VariationData[last.contentId],
                                last.variationKey)
  IN ( /\ CalledOnVariation /\ ~VariablesEmpty(last.variables)
       /\ last.variationKey.t = "string" /\ chosen.some )
     => last.result.text =
          PopulateTextWithVariables(chosen.text, last.variables)

\* The image nodes of HomeTree, written out by hand.
ImageLeaves ==
  <<"Home", ".", "hero">> :> [url |-> <<"x.png">>, altText |-> <<"alt">>]

\* C17: getImage on an image node returns the node with the CDN base put
\* before the stored url and altText as stored; the call leaves the stored
\* tree as it is, so every later call returns the same url.
C17_GetImagePrefixesOnce ==
  /\ []( ( /\ Called("getImage") /\ activeContent = HomeTree
           /\ last.contentId \in DOMAIN ImageLeaves )
         => last.result =
              [contentId |-> last.contentId,
               data |->
                 JObj("contentstorage_type" :> JStr(<<"image">>)
                      @@ "url" :>
                           JStr(<<"https://cdn.contentstorage.app/">>
                                \o ImageLeaves[last.contentId].url)
                      @@ "altText" :>
                           JStr(ImageLeaves[last.contentId].altText))] )
  /\ [][Called("getImage")' => activeContent' = activeContent]_vars

\* The hero image was read.
C17_Witness ==
  /\ Called("getImage") /\ activeContent = HomeTree
  /\ last.result.data.f["url"] =
       JStr(<<"https://cdn.contentstorage.app/", "x.png">>)
  /\ last.result.data.f["altText"] = JStr(<<"alt">>)

\* Positions i..j of text spell a placeholder: a brace, one or more word
\* characters, a closing brace.
IsPlaceholder(text, i, j) ==
  /\ i + 1 < j /\ j <= Len(text)
  /\ text[i] = "{" /\ text[j] = "}"
  /\ \A k \in (i + 1)..(j - 1) : text[k] \in WordChars

\* What position i of text contributes to the result: the replacement if a
\* placeholder starts at i, nothing if i is inside a placeholder, the
\* character itself otherwise.
Piece(text, variables, i) ==
  IF \E j \in DOMAIN text : IsPlaceholder(text, i, j)
    THEN LET j == CHOOSE j \in DOMAIN text : IsPlaceholder(text, i, j)
             name == SubSeq(text, i + 1, j - 1)
         IN IF name \in DOMAIN variables THEN StringOf(variables[name])
            ELSE SubSeq(text, i, j)
  ELSE IF \E h \in 1..(i - 1), j \in i..Len(text) :
            IsPlaceholder(text, h, j)
    THEN <<>>
  ELSE <<text[i]>>

RECURSIVE Pieces(_, _, _)
Pieces(text, variables, i) ==
  IF i > Len(text) THEN <<>>
  ELSE Piece(text, variables, i) \o Pieces(text, variables, i + 1)

CallKey(i) == <<reqs[i].languageToFetch, reqs[i].effectiveContentKey>>

\* The draft calls for key k that are waiting for their timer or for their
\* response.
LiveDraftCalls(k) ==
  {i \in DraftCalls : CallKey(i) = k
                      /\ reqs[i].status \in {"scheduled", "inflight"}}

\* C19: while a draft call is in flight and not cancelled, the handle under
\* its key is its own; a call that settles removes no handle but its own;
\* and a key with no draft call scheduled or in flight has neither a timer
\* nor a cancellation handle in the registry.
C19_RegistryTracksOwnHandles ==
  /\ [](\A i \in DraftCalls :
          (reqs[i].status = "inflight" /\ ~reqs[i].cancelled)
          => cancelTokenSources[CallKey(i)] = i)
  /\ [](\A k \in RequestKeys :
          LiveDraftCalls(k) = {}
          => debounceTimers[k] = 0 /\ cancelTokenSources[k] = 0)
  /\ [][\A i \in DraftCalls :
          (reqs[i].status = "inflight" /\ reqs'[i].status = "done")
          => /\ debounceTimers' = debounceTimers
             /\ \A k \in RequestKeys :
                  cancelTokenSources'[k] # cancelTokenSources[k]
                  => cancelTokenSources[k] = i /\ k = CallKey(i)]_vars

\* A cancelled call has settled while the request of the newer call for
\* its key is in flight under its own handle.
C19_Witness ==
  \E i, j \in DraftCalls :
    /\ i < j /\ CallKey(i) = CallKey(j)
    /\ reqs[i].status = "done" /\ reqs[i].error = "cancel"
    /\ reqs[j].status = "inflight" /\ cancelTokenSources[CallKey(j)] = j

\* The step is the work of a draft call for key k: the call itself, its
\* timer firing, or its request settling.
OwnDraftStep(k) ==
  \/ /\ Len(reqs') = Len(reqs) + 1
     /\ reqs'[Len(reqs')].path = "draft"
     /\ reqs'[Len(reqs')].languageToFetch = k[1]
     /\ reqs'[Len(reqs')].effectiveContentKey = k[2]
  \/ \E i \in DraftCalls :
       /\ CallKey(i) = k
       /\ \/ reqs[i].status = "scheduled" /\ reqs'[i].status = "inflight"
          \/ reqs[i].status = "inflight" /\ reqs'[i].status = "done"

\* C20: the timer and the cancellation handle of a key, and the requests
\* made for it, are touched only by the draft calls for that key: a draft
\* call for another language or content key and a CDN call leave them as
\* they are.
C20_OtherKeysAndCdnLeaveRegistry ==
  [][\A k \in RequestKeys :
       ~OwnDraftStep(k)
       => /\ debounceTimers'[k] = debounceTimers[k]
          /\ cancelTokenSources'[k] = cancelTokenSources[k]
          /\ \A i \in DraftCalls :
               CallKey(i) = k
               => /\ reqs'[i].cancelled = reqs[i].cancelled
                  /\ reqs'[i].status = reqs[i].status]_vars

\* A request for one language is in flight, a timer is set for the other
\* language, and a CDN call was made after both.
C20_Witness ==
  \E i, j, c \in DOMAIN reqs :
    /\ i < j /\ j < c
    /\ reqs[i].path = "draft" /\ reqs[j].path = "draft"
    /\ CallKey(i) # CallKey(j)
    /\ reqs[i].status = "inflight" /\ ~reqs[i].cancelled
    /\ cancelTokenSources[CallKey(i)] = i
    /\ reqs[j].status = "scheduled" /\ debounceTimers[CallKey(j)] = j
    /\ reqs[c].path = "cdn"

\* The literal the latest reader call resolved, by the hand-written tables:
\* the string leaf, the absolute url of the image, the variation chosen.
\* `some` is FALSE if the call resolved nothing.
ResolvedLiteral ==
  LET leaf == {e \in Leaves : /\ e.tree = activeContent
                              /\ e.path = last.contentId
                              /\ e.kind = "text"}
  IN CASE Called("getText") /\ leaf # {} ->
            [some |-> TRUE, key |-> JStr((CHOOSE e \in leaf : TRUE).leaf),
             type |-> "text", variation |-> "none"]
       [] /\ Called("getImage") /\ activeContent = HomeTree
          /\ last.contentId \in DOMAIN ImageLeaves ->
            [some |-> TRUE,
             key |-> JStr(<<"https://cdn.contentstorage.app/">>
                          \o ImageLeaves[last.contentId].url),
             type |-> "image", variation |-> "none"]
       [] /\ CalledOnVariation /\ last.variationKey.t = "string"
          /\ ChosenVariation(VariationData[last.contentId],
                             last.variationKey).some ->
            LET data == VariationData[last.contentId]
                name == KeyOf(last.variationKey.s)
            IN [some |-> TRUE,
                key |-> JStr(ChosenVariation(data, last.variationKey).text),
                type |-> "variation",
                variation |-> IF name \in DOMAIN data /\ data[name].t = "string"
                                THEN name ELSE "default"]
       [] OTHER -> [some |-> FALSE]

\* C21: inside a frame, the entry a reader records is keyed by the literal
\* it resolved (the string, the absolute url, the variation chosen, also on
\* the fallback to `default`), and carries the type of the reader, the
\* content id of the call and, for a variation, the key that was used.
C21_EntriesKeyedByLiteral ==
  (inIframe /\ ResolvedLiteral.some)
  => \E e \in memoryMap :
       /\ e.key = ResolvedLiteral.key
       /\ e.type = ResolvedLiteral.type
       /\ last.contentId \in e.ids
       /\ e.variation = ResolvedLiteral.variation

\* C22: the map changes only in a reader call that resolved a value inside
\* a frame, and it only grows: every key stays, with all the content ids it
\* had, whatever tree or language is set and whatever is fetched.
C22_MapOnlyGrows ==
  [][ /\ \A e \in memoryMap :
           \E f \in memoryMap' : f.key = e.key /\ e.ids \subseteq f.ids
      /\ memoryMap' # memoryMap
         => /\ inIframe
            /\ last'.op \in {"getText", "getImage", "getVariation"}
            /\ last'.result # EmptyResult(last'.op, last'.contentId) ]_vars

\* A literal was read under two content ids, one in each of two trees.
C22_Witness ==
  /\ activeContent = FrameTree
  /\ \E e \in memoryMap :
       /\ e.ids = {<<"Home">>, <<"Home", ".", "title">>}
       /\ e.type = "text"
  /\ \E e \in memoryMap : e.type = "image"

\* The step is a direct call of setContentLanguage that stored its tree:
\* no request, configuration or reader is involved.
DirectSetStep ==
  /\ reqs' = reqs /\ appConfig' = appConfig /\ last'.op = "none"
  /\ TypeOf(activeContent') = "object" /\ activeContent' # JNull

\* The step is the arrival of a valid response to request r, not cancelled.
StoringResponseStep(r) ==
  /\ reqs[r].status = "inflight" /\ ~reqs[r].cancelled
  /\ reqs'[r].status = "done" /\ reqs'[r].error = "none"
  /\ reqs'[r].stored

\* C23: the active tree and the active language change only when
\* setContentLanguage stores a tree, called directly or by a fetch whose
\* response is valid: the readers and initContentStorage leave them alone,
\* and so does a fetch that fails (network error, empty body, wrong shape)
\* or is cancelled, on either path.
C23_StoreChangedOnlyBySet ==
  [][ (activeContent' # activeContent
       \/ currentLanguageCode' # currentLanguageCode)
      => \/ DirectSetStep
         \/ \E r \in DOMAIN reqs : StoringResponseStep(r) ]_vars

\* A tree is loaded, one draft call was cancelled and another failed, and
\* the text was read.
C23_Witness ==
  /\ activeContent = TreeB /\ currentLanguageCode = "EN"
  /\ \E i, j \in DOMAIN reqs :
       /\ reqs[i].error = "cancel" /\ reqs[i].status = "done"
       /\ reqs[j].issued /\ reqs[j].status = "done"
       /\ reqs[j].error \notin {"none", "cancel"}
  /\ Called("getText") /\ last.result.text = <<"w">>

\* C24: the active language is unset exactly when the active tree is
\* unset, and the two are always written together by one operation: a
\* setContentLanguage call stores its tree with its language, a response
\* stores its body with the language of its request, however the calls for
\* the languages, keys and paths interleave.
C24_LanguageGoesWithTree ==
  /\ [](currentLanguageCode = "" <=> activeContent = JNull)
  /\ [][ /\ \A r \in DOMAIN reqs :
              StoringResponseStep(r)
              => /\ currentLanguageCode' = reqs[r].languageToFetch
                 /\ activeContent' \in {reqs'[r].body,
                                        Get(reqs'[r].body, "data")}
         /\ \A languageCode \in Langs, contentJson \in {TreeB, JNull} :
              (SetContentLanguage(languageCode, contentJson)
               /\ contentJson # JNull)
              => /\ currentLanguageCode' = languageCode
                 /\ activeContent' = contentJson ]_vars

\* Fetches for two languages have both stored their tree, and the tree
\* and the language are those of the request for the second language.
C24_Witness ==
  \E i, j \in DOMAIN reqs :
    /\ reqs[i].stored /\ reqs[i].languageToFetch = "EN"
    /\ reqs[j].stored /\ reqs[j].languageToFetch = "ET"
    /\ reqs[i].path # reqs[j].path
    /\ currentLanguageCode = "ET" /\ activeContent = TreeA

\* The promise of liveEditorReady has resolved.
Resolved == liveEditorReadyPromise \in {"true", "false"}

\* C25: liveEditorReady makes one promise, which every call returns, and so
\* starts one loading sequence; the sequence makes at most `retries`
\* attempts (`retries` of the call that made the promise, if 1 or more), a
\* new one only after the one before failed; the promise never rejects and
\* in the end resolves: false outside live-editor mode, true as soon as an
\* attempt loads, false when the last attempt has failed.
C25_LiveEditorReadyLoadsOnce ==
  /\ []( /\ loader.created <= 1
         /\ \A c \in DOMAIN loader.calls : loader.calls[c].promise = 1
         /\ loader.retries >= 1 => loader.scripts <= loader.retries
         /\ liveEditorReadyPromise \in {"null", "pending", "true", "false"}
         /\ liveEditorReadyPromise = "true"
            => loader.isLiveMode /\ loader.loaded = 1
         /\ liveEditorReadyPromise = "false"
            => \/ ~loader.isLiveMode /\ loader.scripts = 0
               \/ /\ loader.isLiveMode /\ loader.loaded = 0
                  /\ loader.failed = loader.scripts
                  /\ loader.retries >= 1 => loader.scripts = loader.retries )
  /\ [][ /\ loader'.scripts > loader.scripts
            => loader.failed = loader.scripts /\ loader.loaded = 0
         /\ loader'.loaded > loader.loaded
            => liveEditorReadyPromise' = "true"
         /\ (loader'.failed > loader.failed
             /\ loader'.failed >= loader.retries)
            => liveEditorReadyPromise' = "false"
         /\ (loader.phase = "checking" /\ loader'.phase # "checking"
             /\ ~loader'.isLiveMode)
            => liveEditorReadyPromise' = "false"
         /\ Resolved => UNCHANGED liveEditorReadyPromise ]_vars
  /\ (liveEditorReadyPromise = "null") ~> (liveEditorReadyPromise # "null")
  /\ (liveEditorReadyPromise = "pending") ~> Resolved

\* In live-editor mode both attempts of the module's call have failed and
\* the promise is false; the application has called with other retries.
C25_Witness ==
  /\ liveEditorReadyPromise = "false" /\ loader.isLiveMode
  /\ loader.retries = DefaultRetries
  /\ loader.scripts = 2 /\ loader.failed = 2
  /\ \E c \in DOMAIN loader.calls : loader.calls[c].retries = 1

====
